---- MODULE Spec2Model ----
(***************************************************************************)
(* Model of dxf_to_shapefile.py: the interactive DXF -> Shapefile          *)
(* conversion (main and the five functions it calls).                      *)
(*                                                                         *)
(* Text is a sequence of one-character strings.  A coordinate is an        *)
(* integer count of 10^-17 units, so that rounding to 16 decimals is a     *)
(* real operation.  The libraries (ezdxf, shapely, geopandas) are the      *)
(* environment: what they may do differently from one build to another is  *)
(* drawn once, in lib; what the storage may do differently from one call   *)
(* to another is drawn at the call.                                        *)
(***************************************************************************)
EXTENDS Integers, Sequences, FiniteSets, TLC

\* ------------------------------------------------------------------ bounds
\* longest vertex list of an entity
MaxPts == 4
\* most entities in a model space
MaxEnt == 2

\* ------------------------------------------------------- program constants
\* 32700 + zone: UTM south
EpsgSul == 32700
\* 32600 + zone: UTM north
EpsgNorte == 32600
\* len(pontos) < 3 is rejected
MinPontos == 3
\* round(., 16): one unit of the 16th decimal, in 10^-17 units
Casa16 == 10

\* -------------------------------------------------------------------- text
Digits == <<"0", "1", "2", "3", "4", "5", "6", "7", "8", "9">>

\* the characters str.isdigit() accepts: the decimals and, among others, the
\* superscript digits, which int() refuses
IsDigitChar(c) == c \in {Digits[i] : i \in 1..10} \cup {"²"}

IsDecimalChar(c) == c \in {Digits[i] : i \in 1..10}

DecimalValue(c) == (CHOOSE i \in 1..10 : Digits[i] = c) - 1

UpperChar(c) ==
  CASE c = "n" -> "N"
    [] c = "s" -> "S"
    [] c = "e" -> "E"
    [] c = "a" -> "A"
    [] c = "b" -> "B"
    [] OTHER -> c

IsSpace(c) == c \in {" ", "\t"}

RECURSIVE LStrip(_)
LStrip(s) == IF s # <<>> /\ IsSpace(Head(s)) THEN LStrip(Tail(s)) ELSE s

RECURSIVE RStrip(_)
RStrip(s) ==
  IF s # <<>> /\ IsSpace(s[Len(s)]) THEN RStrip(SubSeq(s, 1, Len(s) - 1)) ELSE s

\* str.strip()
Strip(s) == RStrip(LStrip(s))

\* str.upper()
Upper(s) == [i \in 1..Len(s) |-> UpperChar(s[i])]

\* str.isdigit(): at least one character, all of them digits
IsDigit(s) == s # <<>> /\ \A i \in 1..Len(s) : IsDigitChar(s[i])

RECURSIVE DecimalOf(_)
DecimalOf(s) ==
  IF s = <<>> THEN 0 ELSE 10 * DecimalOf(SubSeq(s, 1, Len(s) - 1)) + DecimalValue(s[Len(s)])

\* int(s): ValueError unless s is a non-empty run of decimal digits
\* (surrounding blanks are stripped by int itself)
IntOf(s) ==
  LET t == Strip(s)
  IN IF t # <<>> /\ \A i \in 1..Len(t) : IsDecimalChar(t[i])
       THEN [ok |-> TRUE, val |-> DecimalOf(t)]
       ELSE [ok |-> FALSE, val |-> 0]

\* the index of the last c in s, 0 when there is none
LastIndexOf(s, c) ==
  LET hits == {i \in 1..Len(s) : s[i] = c}
  IN IF hits = {} THEN 0 ELSE CHOOSE i \in hits : \A j \in hits : j <= i

\* Path(p).stem: the last component, without its last suffix
Stem(p) ==
  LET q    == IF Len(p) > 1 /\ p[Len(p)] = "/" THEN SubSeq(p, 1, Len(p) - 1) ELSE p
      name == SubSeq(q, LastIndexOf(q, "/") + 1, Len(q))
      dot  == LastIndexOf(name, ".")
  IN IF dot > 1 /\ dot < Len(name) THEN SubSeq(name, 1, dot - 1) ELSE name

\* ------------------------------------------------------------- coordinates
\* round(float(v), 16): to the nearest multiple of 10^-16, ties to even
Round16(v) ==
  LET q == v \div Casa16
      r == v % Casa16
  IN IF 2 * r < Casa16 THEN q * Casa16
     ELSE IF 2 * r > Casa16 THEN (q + 1) * Casa16
     ELSE IF q % 2 = 0 THEN q * Casa16 ELSE (q + 1) * Casa16

\* ------------------------------------------------------------------ drawing
PolyKinds == {"LWPOLYLINE", "POLYLINE"}

Kinds == PolyKinds \cup {"LINE", "TEXT"}

\* an LWPOLYLINE point as get_points() yields it: (x, y, start_width, end_width, bulge)
LwPoint(p) == <<p[1], p[2], 0, 0, 0>>

\* a POLYLINE vertex: vertex.dxf.location is (x, y, z)
Vertex(p) == [location |-> <<p[1], p[2], 0>>]

\* an entity of the model space holding the 2D points ring (none for a LINE or TEXT)
Entity(kind, handle, ring) ==
  [kind   |-> kind,
   handle |-> handle,
   points |-> IF kind = "LWPOLYLINE" THEN [i \in 1..Len(ring) |-> LwPoint(ring[i])]
              ELSE IF kind = "POLYLINE" THEN [i \in 1..Len(ring) |-> Vertex(ring[i])]
              ELSE <<>>]

\* len(entity): the number of vertices a polyline carries
EntityLen(e) == Len(e.points)

\* ------------------------------------------------------- the five functions
\* ler_arquivo_dxf: the document, or None when ezdxf.readfile raises
NoDoc == [loaded |-> FALSE, msp |-> <<>>]

ler_arquivo_dxf(content) ==
  IF content.state = "valid"
    THEN [doc |-> [loaded |-> TRUE, msp |-> content.msp], out |-> <<"dxf_carregado">>]
    ELSE [doc |-> NoDoc, out |-> <<"erro_ler_dxf">>]

\* fault: the loop does not look at the kind of the entity
RECURSIVE ScanFromSemFiltro(_, _, _)
ScanFromSemFiltro(msp, entity_id, i) ==
  IF i > Len(msp) THEN 0
  ELSE IF msp[i].handle = entity_id THEN i
  ELSE ScanFromSemFiltro(msp, entity_id, i + 1)

\* the loop of encontrar_poligono_por_id from entity i on: the index of the
\* first entity that qualifies, 0 (None) when the loop runs out
RECURSIVE ScanFrom(_, _, _)
ScanFrom(msp, entity_id, i) ==
  IF i > Len(msp) THEN 0
  ELSE IF msp[i].kind \in PolyKinds /\ msp[i].handle = entity_id THEN i
  ELSE ScanFrom(msp, entity_id, i + 1)

encontrar_poligono_por_id(doc, entity_id) ==
  LET i == ScanFrom(doc.msp, entity_id, 1)
  IN [entity |-> i,
      out    |-> IF i = 0 THEN <<"poligono_nao_encontrado">> ELSE <<>>]

extrair_coordenadas_poligono(e) ==
  IF e.kind = "LWPOLYLINE"
    THEN [i \in 1..Len(e.points) |-> <<e.points[i][1], e.points[i][2]>>]
  ELSE IF e.kind = "POLYLINE"
    THEN [i \in 1..Len(e.points) |->
            <<e.points[i].location[1], e.points[i].location[2]>>]
  ELSE <<>>

converter_coordenadas_utm(pontos, zona_utm, hemisferio) ==
  [i \in 1..Len(pontos) |-> <<Round16(pontos[i][1]), Round16(pontos[i][2])>>]

\* fault: the ring is never closed
FecharAnelNunca(pontos) == pontos

\* fault: the first pair is appended even to a closed ring
FecharAnelSempre(pontos) == Append(pontos, pontos[1])

\* lines 80-82: the list after "if pontos[0] != pontos[-1]: pontos.append(pontos[0])"
FecharAnel(pontos) ==
  IF pontos[1] # pontos[Len(pontos)] THEN Append(pontos, pontos[1]) ELSE pontos

\* fault: the two hemispheres are swapped
EpsgCodeTrocado(hemisferio, zona) ==
  IF Upper(hemisferio) = <<"S">> THEN EpsgNorte + zona ELSE EpsgSul + zona

\* lines 89-93
EpsgCode(hemisferio, zona) ==
  IF Upper(hemisferio) = <<"S">> THEN EpsgSul + zona ELSE EpsgNorte + zona

Exts == <<"shp", "shx", "dbf", "prj">>

\* what to_file puts in the file of extension ext
FileOf(caminho_saida, ext, ring, epsg) ==
  [base |-> caminho_saida,
   ext  |-> ext,
   ring |-> IF ext = "shp" THEN ring ELSE <<>>,
   recs |-> IF ext \in {"shx", "dbf"} THEN 1 ELSE 0,
   epsg |-> IF ext = "prj" THEN epsg ELSE 0]

\* Polygon(pontos): a ring of fewer than 4 coordinates is refused by some
\* builds of shapely (ValueError) and accepted by others
PolygonRaises(pontos, lib) == Len(pontos) < 4 /\ lib.poly3_raises

NoPolygon == [called |-> FALSE, arg |-> <<>>]

\* fault: the length check is off by one
PoucosPontosFraco(pontos) == Len(pontos) < MinPontos - 1

\* line 76: len(pontos) < 3
PoucosPontos(pontos) == Len(pontos) < MinPontos

\* criar_shapefile.  written is the number of files to_file gets to write before
\* the storage fails (Len(Exts) + 1: it does not fail).  ret is "True", "False"
\* or "raise" (an exception leaves the function); pontos is the caller's list
\* afterwards, files the files written
criar_shapefile(pontos, zona_utm, hemisferio, caminho_saida, lib, written) ==
  LET fechado == FecharAnel(pontos)
      zona    == IntOf(zona_utm)
      epsg    == EpsgCode(hemisferio, zona.val)
      n       == IF written > Len(Exts) THEN Len(Exts) ELSE written
  IN IF PoucosPontos(pontos)
       THEN [ret |-> "False", pontos |-> pontos, polygon |-> NoPolygon, epsg |-> 0,
             files |-> {}, out |-> <<"menos_de_3_pontos">>]
     ELSE IF PolygonRaises(fechado, lib)
       THEN [ret |-> "raise", pontos |-> fechado,
             polygon |-> [called |-> TRUE, arg |-> fechado], epsg |-> 0,
             files |-> {}, out |-> <<>>]
     ELSE IF ~zona.ok
       THEN [ret |-> "raise", pontos |-> fechado,
             polygon |-> [called |-> TRUE, arg |-> fechado], epsg |-> 0,
             files |-> {}, out |-> <<>>]
     ELSE [ret     |-> IF written > Len(Exts) THEN "True" ELSE "False",
           pontos  |-> fechado,
           polygon |-> [called |-> TRUE, arg |-> fechado],
           epsg    |-> epsg,
           files   |-> {FileOf(caminho_saida, Exts[i], fechado, epsg) : i \in 1..n},
           out     |-> IF written > Len(Exts) THEN <<"shapefile_criado">>
                       ELSE <<"erro_criar_shapefile">>]

\* ------------------------------------------------------------------- state
VARIABLES
  stdin,         \* the four lines the operator types, as typed
  dxf,           \* what the input path holds: [state, msp]
  lib,           \* the library build: [poly3_raises, len_truthy]
  disk,          \* the output files present
  run,           \* 1: the first run of the program, 2: the second
  pc,            \* where main is
  caminho_dxf, entity_id, zona_utm, hemisferio, caminho_saida,
  doc, entity, pontos, pontos_utm, sucesso,
  polygon,       \* the call Polygon(pontos) of criar_shapefile, once made
  epsg_code,     \* epsg_code of criar_shapefile, once computed (0 before)
  stdout,        \* the messages printed by this run
  calls,         \* the functions main has called in this run, in order
  first          \* what the first run left, for comparison with the second

vars == <<stdin, dxf, lib, disk, run, pc, caminho_dxf, entity_id, zona_utm,
          hemisferio, caminho_saida, doc, entity, pontos, pontos_utm, sucesso,
          polygon, epsg_code, stdout, calls, first>>

env == <<stdin, dxf, lib>>

locals == <<caminho_dxf, entity_id, zona_utm, hemisferio, caminho_saida,
            doc, entity, pontos, pontos_utm, sucesso, polygon, epsg_code>>

\* --------------------------------------------------------------- the inputs
PtA  == <<0, 0>>
\* differs from PtA below the 16th decimal
PtA2 == <<3, 0>>
PtB  == <<1000, 0>>
PtC  == <<1000, 1007>>

Pts == {PtA, PtA2, PtB, PtC}

RECURSIVE SeqsUpTo(_, _)
SeqsUpTo(S, n) ==
  IF n = 0 THEN {<<>>}
  ELSE LET shorter == SeqsUpTo(S, n - 1)
       IN shorter \cup {Append(q, x) : q \in {r \in shorter : Len(r) = n - 1}, x \in S}

Rings == SeqsUpTo(Pts, MaxPts)

H1 == <<"1", "A">>
H2 == <<"2", "B">>

Handles == {H1, H2}

Triangle == <<PtA, PtB, PtC>>

Closed4 == <<PtB, PtC, PtA, PtB>>

\* the entities of a drawing: the polylines of the two kinds differ in their points
SomeEntities ==
  {Entity("LWPOLYLINE", h, Triangle) : h \in Handles}
    \cup {Entity("POLYLINE", h, Closed4) : h \in Handles}
    \cup {Entity("LINE", h, <<>>) : h \in Handles}
    \cup {Entity("TEXT", H1, <<>>)}

PlainPath == <<"p", ".", "d", "x", "f">>

Paths == {PlainPath,
          <<"d", ".", "1", "/", "l", "o", "t", "e", ".", "v", "2", ".", "d", "x", "f">>,
          <<" ", "p", ".", "d", "x", "f", " ">>}

IdInputs == {H1, <<"1", "a">>, <<" ", "1", "A", " ">>, H2}

ZoneInputs == {<<"2", "2">>, <<"1">>, <<"0", "6">>, <<" ", "2", "3">>, <<>>,
               <<"2", "x">>, <<"²">>, <<"-", "1">>}

HemiInputs == {<<>>, <<"N">>, <<"S">>, <<"n">>, <<"s">>, <<" ", "s", " ">>,
               <<"E">>, <<"N", "S">>, <<"x">>}

DefaultLib == [poly3_raises |-> TRUE, len_truthy |-> TRUE]

Libs == [poly3_raises : BOOLEAN, len_truthy : BOOLEAN]

Request(path, id, zone, hemi) == [path |-> path, id |-> id, zone |-> zone, hemi |-> hemi]

Drawing(msp) == [state |-> "valid", msp |-> msp]

\* one polyline of any shape, asked for by its handle
InitRings ==
  /\ stdin = Request(PlainPath, H1, <<"2", "3">>, <<>>)
  /\ \E k \in PolyKinds, r \in Rings : dxf = Drawing(<<Entity(k, H1, r)>>)
  /\ lib = DefaultLib

\* the short and degenerate polylines, under every build of the libraries
InitLibs ==
  /\ stdin = Request(PlainPath, H1, <<"2", "2">>, <<"n">>)
  /\ \E k \in PolyKinds, r \in {q \in Rings : Len(q) = 0 \/ (Len(q) = 3 /\ q[1] = PtA)} :
       dxf = Drawing(<<Entity(k, H1, r)>>)
  /\ lib \in Libs

\* any model space, any identifier
InitEntities ==
  /\ \E id \in IdInputs : stdin = Request(PlainPath, id, <<"2", "2">>, <<"S">>)
  /\ \E msp \in SeqsUpTo(SomeEntities, MaxEnt) : dxf = Drawing(msp)
  /\ lib = DefaultLib

\* any zone and hemisphere, any path
InitRequests ==
  /\ \E p \in Paths, z \in ZoneInputs, h \in HemiInputs : stdin = Request(p, H1, z, h)
  /\ dxf = Drawing(<<Entity("LWPOLYLINE", H1, Triangle)>>)
  /\ lib = DefaultLib

\* a missing or malformed drawing, a missing identifier
InitFailures ==
  /\ \E id \in {H1, <<>>, <<" ">>}, h \in {<<"S">>, <<"x">>} :
       stdin = Request(PlainPath, id, <<"2", "2">>, h)
  /\ \E st \in {"missing", "malformed", "valid"} :
       dxf = [state |-> st,
              msp   |-> IF st = "valid" THEN <<Entity("POLYLINE", H1, Triangle)>> ELSE <<>>]
  /\ lib = DefaultLib

Fresh ==
  /\ pc = "input_caminho"
  /\ caminho_dxf = <<>> /\ entity_id = <<>> /\ zona_utm = <<>> /\ hemisferio = <<>>
  /\ caminho_saida = <<>>
  /\ doc = NoDoc /\ entity = 0 /\ pontos = <<>> /\ pontos_utm = <<>>
  /\ sucesso = "unset" /\ polygon = NoPolygon /\ epsg_code = 0
  /\ stdout = <<>> /\ calls = <<>>

NoFirst == [done |-> FALSE, stdout |-> <<>>, calls |-> <<>>, disk |-> {},
            ring |-> <<>>, epsg |-> 0, saida |-> <<>>, sucesso |-> "unset"]

Init ==
  /\ InitRings \/ InitLibs \/ InitEntities \/ InitRequests \/ InitFailures
  /\ disk = {}
  /\ run = 1
  /\ first = NoFirst
  /\ Fresh

\* -------------------------------------------------------------------- main
Say(msgs) == stdout' = stdout \o msgs

\* fault: the name depends on what is already on disk
OutputPathUnico(nome_base, id) ==
  LET plain == nome_base \o <<"_poligono_">> \o id
  IN IF \E f \in disk : f.base = plain THEN plain \o <<"_", "1">> ELSE plain

\* f"{nome_base}_poligono_{entity_id}"
OutputPath(nome_base, id) == nome_base \o <<"_poligono_">> \o id

\* lines 117-120
InputCaminho ==
  /\ pc = "input_caminho"
  /\ caminho_dxf' = Strip(stdin.path)
  /\ IF dxf.state = "missing"
       THEN Say(<<"dxf_nao_encontrado">>) /\ pc' = "exit"
       ELSE Say(<<>>) /\ pc' = "input_id"
  /\ UNCHANGED <<env, disk, run, first, calls, entity_id, zona_utm, hemisferio,
                 caminho_saida, doc, entity, pontos, pontos_utm, sucesso, polygon,
                 epsg_code>>

\* lines 122-125
InputEntityId ==
  /\ pc = "input_id"
  /\ entity_id' = Strip(stdin.id)
  /\ IF Strip(stdin.id) = <<>>
       THEN Say(<<"id_obrigatorio">>) /\ pc' = "exit"
       ELSE Say(<<>>) /\ pc' = "input_zona"
  /\ UNCHANGED <<env, disk, run, first, calls, caminho_dxf, zona_utm, hemisferio,
                 caminho_saida, doc, entity, pontos, pontos_utm, sucesso, polygon,
                 epsg_code>>

\* lines 127-130
InputZona ==
  /\ pc = "input_zona"
  /\ zona_utm' = Strip(stdin.zone)
  /\ IF ~IsDigit(Strip(stdin.zone))
       THEN Say(<<"zona_nao_numero">>) /\ pc' = "exit"
       ELSE Say(<<>>) /\ pc' = "input_hemisferio"
  /\ UNCHANGED <<env, disk, run, first, calls, caminho_dxf, entity_id, hemisferio,
                 caminho_saida, doc, entity, pontos, pontos_utm, sucesso, polygon,
                 epsg_code>>

\* lines 132-142
InputHemisferio ==
  /\ pc = "input_hemisferio"
  /\ hemisferio' = IF Upper(Strip(stdin.hemi)) = <<>> THEN <<"S">>
                   ELSE Upper(Strip(stdin.hemi))
  /\ caminho_saida' = OutputPath(Stem(caminho_dxf), entity_id)
  /\ pc' = "ler"
  /\ UNCHANGED <<env, disk, run, first, calls, stdout, caminho_dxf, entity_id,
                 zona_utm, doc, entity, pontos, pontos_utm, sucesso, polygon,
                 epsg_code>>

\* lines 185-186: the operator interrupts a prompt
Cancelar ==
  /\ pc \in {"input_caminho", "input_id", "input_zona", "input_hemisferio"}
  /\ Say(<<"cancelado">>)
  /\ pc' = "exit"
  /\ UNCHANGED <<env, disk, run, first, calls, locals>>

\* fault: main goes on after ler_arquivo_dxf returned None
LerArquivoSemParar ==
  /\ pc = "ler"
  /\ LET r == ler_arquivo_dxf(dxf)
     IN /\ doc' = r.doc
        /\ Say(r.out)
        /\ pc' = "encontrar"
  /\ calls' = Append(calls, "ler_arquivo_dxf")
  /\ UNCHANGED <<env, disk, run, first, caminho_dxf, entity_id, zona_utm,
                 hemisferio, caminho_saida, entity, pontos, pontos_utm, sucesso,
                 polygon, epsg_code>>

\* lines 145-147
LerArquivo ==
  /\ pc = "ler"
  /\ LET r == ler_arquivo_dxf(dxf)
     IN /\ doc' = r.doc
        /\ Say(r.out)
        /\ pc' = IF r.doc.loaded THEN "encontrar" ELSE "exit"
  /\ calls' = Append(calls, "ler_arquivo_dxf")
  /\ UNCHANGED <<env, disk, run, first, caminho_dxf, entity_id, zona_utm,
                 hemisferio, caminho_saida, entity, pontos, pontos_utm, sucesso,
                 polygon, epsg_code>>

\* "not entity": None, or (where the polyline classes define __len__) a
\* polyline without vertices
NotEntity(i) == i = 0 \/ (lib.len_truthy /\ EntityLen(doc.msp[i]) = 0)

\* lines 150-154
EncontrarPoligono ==
  /\ pc = "encontrar"
  /\ LET r == encontrar_poligono_por_id(doc, entity_id)
     IN /\ entity' = r.entity
        /\ IF NotEntity(r.entity)
             THEN Say(r.out) /\ pc' = "exit"
             ELSE Say(r.out \o <<"poligono_encontrado">>) /\ pc' = "extrair"
  /\ calls' = Append(calls, "encontrar_poligono_por_id")
  /\ UNCHANGED <<env, disk, run, first, caminho_dxf, entity_id, zona_utm,
                 hemisferio, caminho_saida, doc, pontos, pontos_utm, sucesso,
                 polygon, epsg_code>>

\* lines 157-162
ExtrairCoordenadas ==
  /\ pc = "extrair"
  /\ LET r == extrair_coordenadas_poligono(doc.msp[entity])
     IN /\ pontos' = r
        /\ IF r = <<>>
             THEN Say(<<"sem_coordenadas">>) /\ pc' = "exit"
             ELSE Say(<<"pontos_extraidos">>) /\ pc' = "converter"
  /\ calls' = Append(calls, "extrair_coordenadas_poligono")
  /\ UNCHANGED <<env, disk, run, first, caminho_dxf, entity_id, zona_utm,
                 hemisferio, caminho_saida, doc, entity, pontos_utm, sucesso,
                 polygon, epsg_code>>

\* line 165
ConverterCoordenadas ==
  /\ pc = "converter"
  /\ pontos_utm' = converter_coordenadas_utm(pontos, zona_utm, hemisferio)
  /\ pc' = "criar"
  /\ calls' = Append(calls, "converter_coordenadas_utm")
  /\ UNCHANGED <<env, disk, run, first, stdout, caminho_dxf, entity_id, zona_utm,
                 hemisferio, caminho_saida, doc, entity, pontos, sucesso, polygon,
                 epsg_code>>

\* the files on disk after to_file has written fs over them
Overwrite(old, fs) ==
  {f \in old : ~\E g \in fs : g.base = f.base /\ g.ext = f.ext} \cup fs

\* line 168, and lines 187-188 when criar_shapefile raises
CriarShapefile ==
  /\ pc = "criar"
  /\ \E written \in 0..(Len(Exts) + 1) :
       LET r == criar_shapefile(pontos_utm, zona_utm, hemisferio, caminho_saida,
                                lib, written)
       IN /\ pontos_utm' = r.pontos
          /\ polygon' = r.polygon
          /\ epsg_code' = r.epsg
          /\ disk' = Overwrite(disk, r.files)
          /\ IF r.ret = "raise"
               THEN sucesso' = sucesso /\ Say(<<"erro_inesperado">>) /\ pc' = "exit"
               ELSE sucesso' = r.ret /\ Say(r.out) /\ pc' = "relatar"
  /\ calls' = Append(calls, "criar_shapefile")
  /\ UNCHANGED <<env, run, first, caminho_dxf, entity_id, zona_utm, hemisferio,
                 caminho_saida, doc, entity, pontos>>

\* lines 170-183
Relatar ==
  /\ pc = "relatar"
  /\ IF sucesso = "True" THEN Say(<<"sucesso">>) ELSE Say(<<"erro_conversao">>)
  /\ pc' = "exit"
  /\ UNCHANGED <<env, disk, run, first, calls, locals>>

\* the program is started again on the same request, drawing and disk
NovaExecucao ==
  /\ pc = "exit"
  /\ run = 1
  /\ run' = 2
  /\ first' = [done |-> TRUE, stdout |-> stdout, calls |-> calls, disk |-> disk,
               ring |-> pontos_utm, epsg |-> epsg_code, saida |-> caminho_saida,
               sucesso |-> sucesso]
  /\ pc' = "input_caminho"
  /\ caminho_dxf' = <<>> /\ entity_id' = <<>> /\ zona_utm' = <<>> /\ hemisferio' = <<>>
  /\ caminho_saida' = <<>>
  /\ doc' = NoDoc /\ entity' = 0 /\ pontos' = <<>> /\ pontos_utm' = <<>>
  /\ sucesso' = "unset" /\ polygon' = NoPolygon /\ epsg_code' = 0
  /\ stdout' = <<>> /\ calls' = <<>>
  /\ UNCHANGED <<env, disk>>

Next ==
  \/ InputCaminho
  \/ InputEntityId
  \/ InputZona
  \/ InputHemisferio
  \/ Cancelar
  \/ LerArquivo
  \/ EncontrarPoligono
  \/ ExtrairCoordenadas
  \/ ConverterCoordenadas
  \/ CriarShapefile
  \/ Relatar
  \/ NovaExecucao

Spec == Init /\ [][Next]_vars

\* ------------------------------------------------------------- observations
Printed(m) == \E i \in 1..Len(stdout) : stdout[i] = m

Called(f) == \E i \in 1..Len(calls) : calls[i] = f

IsClosed(ring) == ring # <<>> /\ ring[1] = ring[Len(ring)]

Stages == <<"ler_arquivo_dxf", "encontrar_poligono_por_id",
            "extrair_coordenadas_poligono", "converter_coordenadas_utm",
            "criar_shapefile">>

\* calls is the first n stages, in order
RanStages(n) == calls = SubSeq(Stages, 1, n)

NothingWritten == disk = {} /\ ~Printed("sucesso") /\ ~Printed("shapefile_criado")

\* C1: when criar_shapefile is given a ring of at least 3 points, the ring it
\* hands to Polygon, the list it leaves and the ring of every geometry file on
\* disk are closed: first pair = last pair.
C1_RingClosed ==
  /\ (Called("criar_shapefile") /\ Len(pontos) >= 3) =>
       /\ polygon.called
       /\ IsClosed(polygon.arg)
       /\ IsClosed(pontos_utm)
  /\ \A f \in disk : f.ext = "shp" => IsClosed(f.ring)

C1_Witness ==
  /\ sucesso = "True"
  /\ Len(pontos) = 3
  /\ pontos[1] # pontos[3]
  /\ Len(polygon.arg) = 4
  /\ \E f \in disk : f.ext = "shp" /\ f.ring = polygon.arg

\* C2: a ring of fewer than 3 points never reaches Polygon or to_file, leaves no
\* file and no success report; the writer, when called with it (by main, or with
\* any short ring at all), returns False with the validation message.
C2_ShortRingRejected ==
  /\ (Called("extrair_coordenadas_poligono") /\ Len(pontos) < 3) =>
       /\ ~polygon.called
       /\ ~Printed("shapefile_criado") /\ ~Printed("erro_criar_shapefile")
       /\ disk = {}
       /\ ~Printed("sucesso")
       /\ sucesso # "True"
       /\ Called("criar_shapefile") =>
            sucesso = "False" /\ Printed("menos_de_3_pontos")
  /\ pc = "criar" =>
       \A r \in SeqsUpTo(Pts, 2), w \in 0..5 :
         LET res == criar_shapefile(r, zona_utm, hemisferio, caminho_saida, lib, w)
         IN res.ret = "False" /\ res.files = {} /\ ~res.polygon.called

C2_Witness ==
  /\ pc = "exit"
  /\ Called("criar_shapefile")
  /\ doc.msp[entity].kind = "POLYLINE"
  /\ Len(pontos) = 2
  /\ sucesso = "False"
  /\ Printed("erro_conversao")

\* C3: with the zone typed as digits and the hemisphere typed as N, S, n, s or
\* left empty, the code computed and the code of every projection file is
\* 32600 + zone for N/n and 32700 + zone for S/s/empty.
TypedZone ==
  CASE stdin.zone = <<"2", "2">> -> 22
    [] stdin.zone = <<"1">> -> 1
    [] stdin.zone = <<"0", "6">> -> 6
    [] stdin.zone = <<" ", "2", "3">> -> 23
    [] stdin.zone = <<"2", "3">> -> 23
    [] OTHER -> -1

TypedSouth == stdin.hemi \in {<<>>, <<"S">>, <<"s">>, <<" ", "s", " ">>}

TypedNorth == stdin.hemi \in {<<"N">>, <<"n">>}

ExpectedCode == IF TypedNorth THEN 32600 + TypedZone ELSE 32700 + TypedZone

C3_EpsgCode ==
  (TypedZone >= 0 /\ (TypedSouth \/ TypedNorth)) =>
    /\ epsg_code # 0 => epsg_code = ExpectedCode
    /\ \A f \in disk : f.ext = "prj" => f.epsg = ExpectedCode
    /\ Printed("shapefile_criado") =>
         \E f \in disk : f.ext = "prj" /\ f.epsg = ExpectedCode

C3_Witness ==
  /\ stdin.hemi = <<"n">>
  /\ stdin.zone = <<"2", "2">>
  /\ sucesso = "True"
  /\ \E f \in disk : f.ext = "prj" /\ f.epsg = 32622

\* C4 as stated: a hemisphere that is neither N nor S after case folding is an
\* error; nothing is written and no code is chosen for it.
C4_BadHemisphereRejected ==
  stdin.hemi \in {<<"E">>, <<"N", "S">>, <<"x">>} =>
    /\ epsg_code = 0
    /\ disk = {}
    /\ ~Printed("sucesso")

\* C5: encontrar_poligono_por_id returns the first entity, in model-space order,
\* that is a LWPOLYLINE or POLYLINE whose handle equals the identifier, and None
\* (with its message, no exception) when no entity qualifies.
Qualifies(j) ==
  /\ doc.msp[j].kind \in {"LWPOLYLINE", "POLYLINE"}
  /\ doc.msp[j].handle = entity_id

C5_FirstMatch ==
  Called("encontrar_poligono_por_id") =>
    /\ entity \in 0..Len(doc.msp)
    /\ entity # 0 => Qualifies(entity) /\ \A j \in 1..(entity - 1) : ~Qualifies(j)
    /\ entity = 0 =>
         /\ \A j \in 1..Len(doc.msp) : ~Qualifies(j)
         /\ Printed("poligono_nao_encontrado")
         /\ ~Printed("erro_inesperado")
         /\ pc = "exit"

C5_Witness ==
  /\ Called("encontrar_poligono_por_id")
  /\ Len(doc.msp) = 2
  /\ doc.msp[1].kind = "LINE" /\ doc.msp[1].handle = entity_id
  /\ Qualifies(2)
  /\ entity = 2

\* C6: the stages are called in the order load, locate, extract, normalize,
\* write, and a run whose input path is missing, whose drawing is malformed,
\* whose identifier matches no polyline or whose polyline has no points stops at
\* that stage: no later stage is called, nothing is written, no success is
\* reported.
NoMatch ==
  \A j \in 1..Len(dxf.msp) :
    ~(dxf.msp[j].kind \in {"LWPOLYLINE", "POLYLINE"} /\ dxf.msp[j].handle = entity_id)

C6_HaltAtFailure ==
  /\ \E n \in 0..5 : RanStages(n)
  /\ dxf.state = "missing" => RanStages(0) /\ NothingWritten
  /\ dxf.state = "malformed" => (RanStages(0) \/ RanStages(1)) /\ NothingWritten
  /\ Printed("erro_ler_dxf") => RanStages(1) /\ pc = "exit"
  /\ (Called("encontrar_poligono_por_id") /\ NoMatch) =>
       RanStages(2) /\ NothingWritten /\ pc = "exit"
  /\ (Called("extrair_coordenadas_poligono") /\ pontos = <<>>) =>
       RanStages(3) /\ NothingWritten /\ pc = "exit"
  /\ (entity # 0 /\ doc.msp[entity].points = <<>>) =>
       (RanStages(2) \/ RanStages(3)) /\ NothingWritten

C6_Witness ==
  /\ pc = "exit"
  /\ Printed("poligono_nao_encontrado")
  /\ dxf.msp # <<>>
  /\ RanStages(2)
  /\ disk = {}

\* C7 as stated: when to_file fails, the writer returns False, success is not
\* reported, and the run ends with none or all of the four files on disk.
C7_NoPartialOutput ==
  (pc = "exit" /\ Printed("erro_criar_shapefile")) =>
    /\ sucesso = "False"
    /\ ~Printed("sucesso")
    /\ Cardinality({f \in disk : f.base = caminho_saida}) \in {0, 4}

\* C8: a second run on the same request and drawing calls the same stages and
\* computes the same ring, code and output name as the first; when the storage
\* behaves the same it prints the same, and two successful runs leave the same
\* files.
C8_Idempotent ==
  (run = 2 /\ pc = "exit" /\ ~Printed("cancelado")
     /\ ~\E i \in 1..Len(first.stdout) : first.stdout[i] = "cancelado") =>
    /\ calls = first.calls
    /\ pontos_utm = first.ring
    /\ epsg_code = first.epsg
    /\ caminho_saida = first.saida
    /\ sucesso = first.sucesso => stdout = first.stdout
    /\ (sucesso = "True" /\ first.sucesso = "True") => disk = first.disk

C8_Witness ==
  /\ run = 2 /\ pc = "exit"
  /\ sucesso = "True" /\ first.sucesso = "True"
  /\ Cardinality(disk) = 4
  /\ disk = first.disk

\* C9: criar_shapefile changes a ring of n >= 3 points minimally: when its first
\* and last pairs differ, the ring handed on and written is the input followed
\* by one copy of the first pair; when they are equal it is the input unchanged.
C9_MinimalClosure ==
  [][(pc = "criar" /\ Len(pontos_utm) >= 3) =>
       LET n    == Len(pontos_utm)
           want == IF pontos_utm[1] # pontos_utm[n]
                     THEN [i \in 1..(n + 1) |-> IF i <= n THEN pontos_utm[i] ELSE pontos_utm[1]]
                     ELSE pontos_utm
       IN /\ pontos_utm' = want
          /\ polygon'.called /\ polygon'.arg = want
          /\ \A f \in disk' \ disk : f.ext = "shp" => f.ring = want]_vars

C9_Witness ==
  /\ sucesso = "True"
  /\ Len(pontos) = 4
  /\ pontos[1] # pontos[4]
  /\ Len(polygon.arg) = 5
  /\ \E f \in disk : f.ext = "shp" /\ Len(f.ring) = 5

\* C10 as stated: every ring handed to Polygon has at least 3 distinct points;
\* a ring with fewer is rejected before polygon construction.
C10_ThreeDistinctPoints ==
  polygon.called =>
    Cardinality({polygon.arg[i] : i \in 1..Len(polygon.arg)}) >= 3

====
